---- MODULE Spec2Model ----
(***************************************************************************)
(* Model of the polling service (versatilerajan/eenaabknd).                *)
(*                                                                         *)
(* The repository holds three deployments of the same service:             *)
(*   "full"  src/unnamed/part_000 lines 1-499    (userId in the request)   *)
(*   "auth"  src/unnamed/part_000 lines 501-998  (userId from a token)     *)
(*   "min"   src/server.js (= part_000 lines 999-1261)                     *)
(* `variant` selects the deployment; it is fixed for a behaviour.          *)
(*                                                                         *)
(* A request handler is an async function: the code between two awaits     *)
(* runs without interruption, and each awaited store operation takes       *)
(* effect in one step of its own.  A document's save() persists the paths  *)
(* the handler modified: a scalar as a $set of the handler's local value,  *)
(* an array push as a $push, an assigned or spliced array as a $set of     *)
(* the whole array.  Every awaited store operation may also reject (a      *)
(* timeout, a lost connection, a version conflict reported by the driver); *)
(* the handlers' catch blocks answer 500.                                  *)
(*                                                                         *)
(* `minted` holds the ids the store has given to posts (an ObjectId is     *)
(* never given twice), `late` the run of the trending job that was still    *)
(* in progress when the timer started the next one.                        *)
(*                                                                         *)
(* Numbers: scores are kept in units of 1/10000 so the weights 0.5 and     *)
(* 0.1 and the decay factor stay integral; time is counted in ticks of     *)
(* 24 hours.                                                               *)
(***************************************************************************)
EXTENDS Integers, Sequences, FiniteSets, TLC

VARIABLES variant, traffic, minted, late, posts, users, now, req, resp, job, started, queried, jobRuns

vars == <<variant, traffic, minted, late, posts, users, now, req, resp, job, started, queried, jobRuns>>

\* ---- bounds of the model -------------------------------------------------
MaxRequests == 2
MaxQueries == 1
MaxFeedWrites == 1
MaxJobRuns == 1
MaxNow == 2
MaxLimit == 1
MaxSkip == 1
MaxScans == 2
MaxAnyRequests == 2
MaxCounterRequests == 3
MaxLikeRequests == 4
MaxAge == 5

\* ---- universe ------------------------------------------------------------
Variants == {"full", "auth", "min"}
Users == {"u1", "u2"}
InitialUsers == {"u1"}
PostIds == {1, 2}
Procs == {1, 2}
QueryProcs == {3}
Slots == Procs \cup QueryProcs
OptionIdx == {1, 2}

\* A request may name a post id that matches no post, carry no userId
\* (undefined) or an optionIndex that selects no option.  `traffic` says
\* whether the clients of a behaviour send such requests ("any") or only
\* well-formed ones; it is fixed for a behaviour.
Traffic == {"wellformed", "any"}
NoPostId == 3
NoUser == ""
BadOption == 3
PostIdInputs == IF traffic = "any" THEN PostIds \cup {NoPostId} ELSE PostIds
UserInputs == IF traffic = "any" /\ variant # "auth" THEN Users \cup {NoUser} ELSE Users
OptionInputs == IF traffic = "any" THEN OptionIdx \cup {BadOption} ELSE OptionIdx

PostTags(id) == IF id = 1 THEN <<"t1">> ELSE <<"t1", "t2">>

\* ---- program constants ---------------------------------------------------
\* The weights 1, 0.5, 2 and 0.1 are written in tenths and the decay factor
\* in thousandths, so a score is a whole number of 1/ScoreUnit.  The recency
\* bonus (Date.now() - createdAt) / 1e9 of a 24 hour tick is 0.0864.
DefaultLimit == 20
DefaultSkip == 0
TagWeight == 10
voteWeight == 10
likeWeight == 5
shareWeight == 20
viewWeight == 1
ScoreUnit == 10000
RecencyPerTick == 864

\* ---- array helpers -------------------------------------------------------
Includes(s, x) == \E i \in DOMAIN s : s[i] = x

SeqSet(s) == {s[i] : i \in DOMAIN s}

Push(s, x) == Append(s, x)

FilterOut(s, x) == SelectSeq(s, LAMBDA y : y # x)

IndexOf(s, x) == IF Includes(s, x) THEN CHOOSE i \in DOMAIN s : s[i] = x /\ \A j \in 1..(i - 1) : s[j] # x ELSE 0

SpliceOne(s, i) == SubSeq(s, 1, i - 1) \o SubSeq(s, i + 1, Len(s))

Min(a, b) == IF a < b THEN a ELSE b

\* ---- documents -----------------------------------------------------------
NewOption == [votes |-> 0, voters |-> <<>>]

NewPost(id, created) == [options |-> <<NewOption, NewOption>>, totalVotes |-> 0, likes |-> <<>>, likesCount |-> 0, shares |-> 0, views |-> 0, tags |-> PostTags(id), createdAt |-> created, engagementScore |-> 0, trendingScore |-> 0, creatorId |-> "u1"]

NewUser == [interactions |-> <<>>, interests |-> <<>>]

Interaction(id, kind) == [postId |-> id, type |-> kind]

\* A request slot.  post and user hold the handler's local documents
\* (<<>> is null, <<d>> a loaded document).
\* A query parameter as the caller sent it: absent, a text that is no
\* number, or the decimal text of the integer n.
NoParam == [kind |-> "absent", n |-> 0]

IdleReq == [op |-> "none", pc |-> "idle", pid |-> 0, uid |-> "", optionIndex |-> 0, rawLimit |-> NoParam, rawSkip |-> NoParam, limit |-> 0, skip |-> 0, post |-> <<>>, user |-> <<>>, hasLiked |-> FALSE, pushTags |-> <<>>, at |-> 0, status |-> 0, msg |-> "", result |-> <<>>, scores |-> <<>>, counted |-> 0, logged |-> 0]

IdleJob == [pc |-> "idle", queue |-> <<>>, score |-> 0]

\* const interactedPostIds = user.interactions.map(i => i.postId)
InteractedPostIds(r) == IF r.op \in {"feed", "user"} /\ r.user # <<>> THEN {r.user[1].interactions[i].postId : i \in DOMAIN r.user[1].interactions} ELSE {}

Free(p) == req[p].pc = "idle"

\* Slots 1 and 2 run the handlers that write, slot 3 the read-only queries.
\* The writer slots are interchangeable: a new request takes the lowest free one.
CanStart(p) == p \in Procs /\ Free(p) /\ \A q \in Procs : q < p => ~Free(q)

CanQuery(q) == q \in QueryProcs /\ Free(q)

NoResp == [op |-> "none", pid |-> 0, uid |-> "", optionIndex |-> 0, rawLimit |-> NoParam, rawSkip |-> NoParam, limit |-> 0, skip |-> 0, known |-> FALSE, interacted |-> {}, interests |-> <<>>, at |-> 0, hasLiked |-> FALSE, status |-> 0, msg |-> "", result |-> <<>>, scores |-> <<>>, counted |-> 0, logged |-> 0]

\* const userInterests = user.interests || []
UserInterests(r) == IF r.op \in {"feed", "user"} /\ r.user # <<>> THEN r.user[1].interests ELSE <<>>

RespOf(r) == [op |-> r.op, pid |-> r.pid, uid |-> r.uid, optionIndex |-> r.optionIndex, rawLimit |-> r.rawLimit, rawSkip |-> r.rawSkip, limit |-> r.limit, skip |-> r.skip, known |-> (r.op = "feed" /\ r.user # <<>>), interacted |-> InteractedPostIds(r), interests |-> UserInterests(r), at |-> r.at, hasLiked |-> r.hasLiked, status |-> r.status, msg |-> r.msg, result |-> r.result, scores |-> r.scores, counted |-> r.counted, logged |-> r.logged]

\* res.json(...) ends the handler: the slot is free again.  resp is the
\* response sent by the step just taken (NoResp when the step sent none).
Commit(p, r) ==
    IF r.pc = "done"
    THEN req' = [req EXCEPT ![p] = IdleReq] /\ resp' = RespOf(r)
    ELSE req' = [req EXCEPT ![p] = r] /\ resp' = NoResp

Respond(r, code, text) == [r EXCEPT !.pc = "done", !.status = code, !.msg = text]

\* Post.findById(req.params.id): null when no post has the id
findById(id) == IF id \in PostIds THEN posts[id] ELSE <<>>

\* ---- initial state -------------------------------------------------------
Init ==
    /\ variant \in Variants
    /\ traffic \in Traffic
    /\ \E c \in {0, 1} : posts = [id \in PostIds |-> IF id = 1 THEN <<NewPost(1, 0)>> ELSE <<NewPost(2, c)>>]
    /\ users = [u \in Users |-> IF u \in InitialUsers THEN <<NewUser>> ELSE <<>>]
    /\ now = 1
    /\ req = [p \in Slots |-> IdleReq]
    /\ resp = NoResp
    /\ job = IdleJob
    /\ started = 0
    /\ queried = 0
    /\ jobRuns = 0
    /\ minted = PostIds
    /\ late = IdleJob

\* the service with clients that send well-formed requests only
InitWellFormed == Init /\ traffic = "wellformed"

\* the service with clients that send malformed requests too
InitAny == Init /\ traffic = "any"

\* ---- POST /api/users (create or get; not in part_000 501-998) -------------
\* whether the body of a request carries a username
NameInputs == IF traffic = "any" THEN BOOLEAN ELSE {TRUE}

\* (faulty variant of DuplicateKey: userId has no unique index)
DuplicateKey_NoIndex(stored) == FALSE

\* userId: { type: String, required: true, unique: true }: the insert of a
\* second record with the userId is rejected (E11000)
DuplicateKey(stored) == stored # <<>>

UserStart(p) ==
    /\ variant # "auth"
    /\ CanStart(p)
    /\ \E u \in UserInputs, named \in NameInputs :
          LET r == [IdleReq EXCEPT !.op = "user", !.pc = "userFind", !.uid = u]
          IN  \* if (!userId || !username) return res.status(400)...
              Commit(p, IF u = NoUser \/ ~named THEN Respond(r, 400, "userId and username required") ELSE r)
    /\ started' = started + 1
    /\ UNCHANGED <<variant, traffic, minted, late, posts, users, now, job, jobRuns, queried>>

\* let user = await User.findOne({ userId }); if (!user) { user = new User(...)
UserFind(p) ==
    /\ req[p].pc = "userFind"
    /\ LET r == req[p]
           found == users[r.uid]
       IN  Commit(p,
                IF found = <<>> THEN [r EXCEPT !.pc = "userSave", !.user = <<NewUser>>]
                ELSE Respond([r EXCEPT !.user = <<found[1]>>], 200, "User ready"))
    /\ UNCHANGED <<variant, traffic, minted, late, posts, users, now, job, started, queried, jobRuns>>

\* await user.save() of the new document: an insert
UserSave(p) ==
    /\ req[p].pc = "userSave"
    /\ LET r == req[p]
       IN  IF DuplicateKey(users[r.uid])
           THEN /\ users' = users
                /\ Commit(p, Respond(r, 500, "E11000"))
           ELSE /\ users' = [users EXCEPT ![r.uid] = Append(@, r.user[1])]
                /\ Commit(p, Respond(r, 200, "User ready"))
    /\ UNCHANGED <<variant, traffic, minted, late, posts, now, job, started, queried, jobRuns>>

\* ---- POST /api/posts (create a post) --------------------------------------
\* whether the body of a request carries title, creatorName and options
BodyInputs == IF traffic = "any" THEN BOOLEAN ELSE {TRUE}

\* new Post({...}) gives the document its _id, an id no post has had, and
\* the schema defaults: counters and both scores 0, createdAt = Date.now()
PostStart(p) ==
    /\ CanStart(p)
    /\ \E id \in PostIds \ minted, u \in UserInputs, complete \in BodyInputs :
          LET r == [IdleReq EXCEPT !.op = "create", !.pc = "postSave", !.pid = id, !.uid = u,
                                   !.post = <<[NewPost(id, now) EXCEPT !.creatorId = u]>>]
          IN  /\ Commit(p,
                    IF complete /\ u # NoUser THEN r
                    \* if (!creatorId || !creatorName || !title || !options) return res.status(400)...
                    ELSE IF variant = "full" THEN Respond(r, 400, "Missing required fields")
                    \* options.map of undefined throws; a document without creatorId is not valid
                    ELSE Respond(r, 500, IF complete THEN "ValidationError" ELSE "TypeError"))
              /\ minted' = minted \cup {id}
    /\ started' = started + 1
    /\ UNCHANGED <<variant, traffic, late, posts, users, now, job, jobRuns, queried>>

\* await post.save() of the new document: an insert
PostSave(p) ==
    /\ req[p].pc = "postSave"
    /\ posts' = [posts EXCEPT ![req[p].pid] = req[p].post]
    /\ Commit(p, Respond(req[p], 201, "Post created"))
    /\ UNCHANGED <<variant, traffic, minted, late, users, now, job, started, queried, jobRuns>>

\* ---- POST /api/posts/:id/vote --------------------------------------------
\* (faulty variant of HasVoted: looks at the first option only)
HasVoted_FirstOptionOnly(post, uid) == Includes(post.options[1].voters, uid)

HasVoted(post, uid) == \E i \in DOMAIN post.options : Includes(post.options[i].voters, uid)

AddVote(post, oi, uid) == [post EXCEPT !.options[oi].votes = @ + 1, !.options[oi].voters = Push(@, uid), !.totalVotes = @ + 1]

VoteStart(p) ==
    /\ CanStart(p)
    /\ \E id \in PostIdInputs, u \in UserInputs, oi \in OptionInputs :
          LET r == [IdleReq EXCEPT !.op = "vote", !.pc = "voteFind", !.pid = id, !.uid = u, !.optionIndex = oi]
          IN  \* if (!userId) return res.status(400).json({ error: 'userId required' })
              Commit(p, IF variant = "full" /\ u = NoUser THEN Respond(r, 400, "userId required") ELSE r)
    /\ started' = started + 1
    /\ UNCHANGED <<variant, traffic, minted, late, posts, users, now, job, jobRuns, queried>>

VoteFind(p) ==
    /\ req[p].pc = "voteFind"
    /\ LET r == req[p]
           found == findById(r.pid)
       IN  Commit(p,
                IF found = <<>> THEN Respond(r, 404, "Post not found")
                ELSE IF HasVoted(found[1], r.uid) THEN Respond(r, 400, "Already voted")
                \* post.options[optionIndex] is undefined: the += throws a TypeError
                ELSE IF r.optionIndex \notin DOMAIN found[1].options THEN Respond(r, 500, "TypeError")
                ELSE [r EXCEPT !.pc = "voteSave", !.post = <<AddVote(found[1], r.optionIndex, r.uid)>>])
    /\ UNCHANGED <<variant, traffic, minted, late, posts, users, now, job, started, queried, jobRuns>>

SaveVote(stored, local, oi, uid) == [stored EXCEPT !.options[oi].votes = local.options[oi].votes, !.options[oi].voters = Push(@, uid), !.totalVotes = local.totalVotes]

VoteSave(p) ==
    /\ req[p].pc = "voteSave"
    /\ posts[req[p].pid] # <<>>
    /\ LET r == req[p]
       IN  /\ posts' = [posts EXCEPT ![r.pid] = <<SaveVote(@[1], r.post[1], r.optionIndex, r.uid)>>]
           /\ Commit(p,
                IF variant = "min" THEN Respond([r EXCEPT !.counted = 1], 200, "")
                ELSE [r EXCEPT !.pc = "trackFind", !.counted = 1])
    /\ UNCHANGED <<variant, traffic, minted, late, users, now, job, started, queried, jobRuns>>

\* ---- interaction tracking (the tail of the vote/like/share/view handlers) -
Kind(op) == op

\* post.tags.forEach(tag => { if (!user.interests.includes(tag)) user.interests.push(tag) })
RECURSIVE AddInterests(_, _)
AddInterests(interests, tags) ==
    IF tags = <<>> THEN interests
    ELSE AddInterests(IF Includes(interests, Head(tags)) THEN interests ELSE Push(interests, Head(tags)), Tail(tags))

TrackLocal(user, r) ==
    [user EXCEPT !.interactions = Push(@, Interaction(r.pid, Kind(r.op))),
                 !.interests = IF r.op = "vote" THEN AddInterests(@, r.post[1].tags) ELSE @]

AfterTrack(r) ==
    IF r.op = "like" THEN [r EXCEPT !.pc = "likeSave", !.user = <<>>, !.pushTags = <<>>]
    ELSE Respond(r, 200, IF r.op = "vote" THEN "Vote recorded" ELSE IF r.op = "share" THEN "Share recorded" ELSE "")

\* const user = await User.findOne({ userId }); if (user) { ...push...; await user.save() }
TrackFind(p) ==
    /\ req[p].pc = "trackFind"
    /\ LET r == req[p]
           found == users[r.uid]
       IN  Commit(p,
                IF found = <<>>
                THEN IF variant = "auth" THEN Respond(r, 500, "error") ELSE AfterTrack(r)
                ELSE LET local == TrackLocal(found[1], r)
                     IN  [r EXCEPT !.pc = "trackSave", !.user = <<local>>,
                                   !.pushTags = SubSeq(local.interests, Len(found[1].interests) + 1, Len(local.interests))])
    /\ UNCHANGED <<variant, traffic, minted, late, posts, users, now, job, started, queried, jobRuns>>

SaveUser(stored, r) ==
    [stored EXCEPT !.interactions = Push(@, Interaction(r.pid, Kind(r.op))), !.interests = @ \o r.pushTags]

TrackSave(p) ==
    /\ req[p].pc = "trackSave"
    /\ users[req[p].uid] # <<>>
    /\ LET r == req[p]
       IN  /\ users' = [users EXCEPT ![r.uid] = <<SaveUser(@[1], r)>>]
           /\ Commit(p, AfterTrack([r EXCEPT !.logged = @ + 1]))
    /\ UNCHANGED <<variant, traffic, minted, late, posts, now, job, started, queried, jobRuns>>

\* await User.findByIdAndUpdate(req.user.id, { $push: { interactions: {...} } })
TrackUpdate(p) ==
    /\ req[p].pc = "trackUpdate"
    /\ LET r == req[p]
       IN  IF users[r.uid] = <<>>
           THEN /\ users' = users
                /\ Commit(p, AfterTrack(r))
           ELSE /\ users' = [users EXCEPT ![r.uid] = <<[@[1] EXCEPT !.interactions = Push(@, Interaction(r.pid, Kind(r.op)))]>>]
                /\ Commit(p, AfterTrack([r EXCEPT !.logged = @ + 1]))
    /\ UNCHANGED <<variant, traffic, minted, late, posts, now, job, started, queried, jobRuns>>

TrackPc == IF variant = "full" THEN "trackFind" ELSE "trackUpdate"

\* if (userId) { ...track... } after post.save() in the share and view handlers
AfterSave(r) == IF r.uid = NoUser THEN AfterTrack(r) ELSE [r EXCEPT !.pc = TrackPc]

\* ---- POST /api/posts/:id/like --------------------------------------------
\* (faulty variant of LikeNextPc: the unlike branch tracks too)
LikeNextPc_TracksUnlike(hasLiked) == IF variant = "min" THEN "likeSave" ELSE TrackPc

\* only the like branch tracks the interaction; server.js tracks nothing
LikeNextPc(hasLiked) == IF hasLiked \/ variant = "min" THEN "likeSave" ELSE TrackPc

Unlike(post, uid) ==
    IF variant = "min"
    THEN [post EXCEPT !.likes = SpliceOne(@, IndexOf(@, uid)), !.likesCount = @ - 1]
    ELSE [post EXCEPT !.likes = FilterOut(@, uid), !.likesCount = @ - 1]

Like(post, uid) == [post EXCEPT !.likes = Push(@, uid), !.likesCount = @ + 1]

LikeStart(p) ==
    /\ CanStart(p)
    /\ \E id \in PostIdInputs, u \in UserInputs :
          LET r == [IdleReq EXCEPT !.op = "like", !.pc = "likeFind", !.pid = id, !.uid = u]
          IN  Commit(p, IF variant = "full" /\ u = NoUser THEN Respond(r, 400, "userId required") ELSE r)
    /\ started' = started + 1
    /\ UNCHANGED <<variant, traffic, minted, late, posts, users, now, job, jobRuns, queried>>

LikeFind(p) ==
    /\ req[p].pc = "likeFind"
    /\ LET r == req[p]
           found == findById(r.pid)
       IN  Commit(p,
                IF found = <<>>
                \* server.js has no null check: post.likes throws a TypeError
                THEN IF variant = "min" THEN Respond(r, 500, "TypeError") ELSE Respond(r, 404, "Post not found")
                ELSE IF Includes(found[1].likes, r.uid)
                THEN [r EXCEPT !.pc = LikeNextPc(TRUE), !.hasLiked = TRUE, !.post = <<Unlike(found[1], r.uid)>>]
                ELSE [r EXCEPT !.pc = LikeNextPc(FALSE), !.hasLiked = FALSE, !.post = <<Like(found[1], r.uid)>>])
    /\ UNCHANGED <<variant, traffic, minted, late, posts, users, now, job, started, queried, jobRuns>>

SaveLike(stored, local, hasLiked, uid) ==
    IF hasLiked
    THEN [stored EXCEPT !.likes = local.likes, !.likesCount = local.likesCount]
    ELSE [stored EXCEPT !.likes = Push(@, uid), !.likesCount = local.likesCount]

LikeSave(p) ==
    /\ req[p].pc = "likeSave"
    /\ posts[req[p].pid] # <<>>
    /\ LET r == req[p]
       IN  /\ posts' = [posts EXCEPT ![r.pid] = <<SaveLike(@[1], r.post[1], r.hasLiked, r.uid)>>]
           /\ Commit(p, Respond([r EXCEPT !.counted = 1], 200, IF variant = "min" THEN "" ELSE IF r.hasLiked THEN "Unliked" ELSE "Liked"))
    /\ UNCHANGED <<variant, traffic, minted, late, users, now, job, started, queried, jobRuns>>

\* ---- POST /api/posts/:id/share -------------------------------------------
ShareStart(p) ==
    /\ variant # "min"
    /\ CanStart(p)
    /\ \E id \in PostIdInputs, u \in UserInputs :
          req' = [req EXCEPT ![p] = [IdleReq EXCEPT !.op = "share", !.pc = "shareFind", !.pid = id, !.uid = u]]
    /\ started' = started + 1
    /\ resp' = NoResp
    /\ UNCHANGED <<variant, traffic, minted, late, posts, users, now, job, jobRuns, queried>>

ShareFind(p) ==
    /\ req[p].pc = "shareFind"
    /\ LET r == req[p]
           found == findById(r.pid)
       IN  Commit(p,
                IF found = <<>> THEN Respond(r, 404, "Post not found")
                ELSE [r EXCEPT !.pc = "shareSave", !.post = <<[found[1] EXCEPT !.shares = @ + 1]>>])
    /\ UNCHANGED <<variant, traffic, minted, late, posts, users, now, job, started, queried, jobRuns>>

ShareSave(p) ==
    /\ req[p].pc = "shareSave"
    /\ posts[req[p].pid] # <<>>
    /\ LET r == req[p]
       IN  /\ posts' = [posts EXCEPT ![r.pid] = <<[@[1] EXCEPT !.shares = r.post[1].shares]>>]
           /\ Commit(p, AfterSave([r EXCEPT !.counted = 1]))
    /\ UNCHANGED <<variant, traffic, minted, late, users, now, job, started, queried, jobRuns>>

\* ---- GET /api/posts/:id (counts a view) ----------------------------------
ViewStart(p) ==
    /\ variant # "min"
    /\ CanStart(p)
    /\ \E id \in PostIdInputs, u \in UserInputs :
          req' = [req EXCEPT ![p] = [IdleReq EXCEPT !.op = "view", !.pc = "viewFind", !.pid = id, !.uid = u]]
    /\ started' = started + 1
    /\ resp' = NoResp
    /\ UNCHANGED <<variant, traffic, minted, late, posts, users, now, job, jobRuns, queried>>

ViewFind(p) ==
    /\ req[p].pc = "viewFind"
    /\ LET r == req[p]
           found == findById(r.pid)
       IN  Commit(p,
                IF found = <<>> THEN Respond(r, 404, "Post not found")
                ELSE [r EXCEPT !.pc = "viewSave", !.post = <<[found[1] EXCEPT !.views = @ + 1]>>])
    /\ UNCHANGED <<variant, traffic, minted, late, posts, users, now, job, started, queried, jobRuns>>

ViewSave(p) ==
    /\ req[p].pc = "viewSave"
    /\ posts[req[p].pid] # <<>>
    /\ LET r == req[p]
       IN  /\ posts' = [posts EXCEPT ![r.pid] = <<[@[1] EXCEPT !.views = r.post[1].views]>>]
           /\ Commit(p, AfterSave([r EXCEPT !.counted = 1]))
    /\ UNCHANGED <<variant, traffic, minted, late, users, now, job, started, queried, jobRuns>>

\* ---- DELETE /api/posts/:id (part_000 1-499 only) --------------------------
\* (faulty variant of Authorized: anyone may delete)
Authorized_Anyone(post, uid) == TRUE

\* if (post.creatorId !== userId) return res.status(403)...
Authorized(post, uid) == post.creatorId = uid

DeleteStart(p) ==
    /\ variant = "full"
    /\ CanStart(p)
    /\ \E id \in PostIdInputs, u \in UserInputs :
          req' = [req EXCEPT ![p] = [IdleReq EXCEPT !.op = "delete", !.pc = "deleteFind", !.pid = id, !.uid = u]]
    /\ started' = started + 1
    /\ resp' = NoResp
    /\ UNCHANGED <<variant, traffic, minted, late, posts, users, now, job, jobRuns, queried>>

DeleteFind(p) ==
    /\ req[p].pc = "deleteFind"
    /\ LET r == req[p]
           found == findById(r.pid)
       IN  Commit(p,
                IF found = <<>> THEN Respond(r, 404, "Post not found")
                ELSE IF ~Authorized(found[1], r.uid) THEN Respond(r, 403, "Not authorized")
                ELSE [r EXCEPT !.pc = "deleteRemove"])
    /\ UNCHANGED <<variant, traffic, minted, late, posts, users, now, job, started, queried, jobRuns>>

\* await Post.findByIdAndDelete(req.params.id): null, and no error, when the
\* post is gone already
DeleteRemove(p) ==
    /\ req[p].pc = "deleteRemove"
    /\ posts' = [posts EXCEPT ![req[p].pid] = <<>>]
    /\ Commit(p, Respond(req[p], 200, "Post deleted"))
    /\ UNCHANGED <<variant, traffic, minted, late, users, now, job, started, queried, jobRuns>>

\* ---- scoring -------------------------------------------------------------
\* Math.exp(-ageInHours / 48) in thousandths, for an age in ticks of 24 hours
decayFactor(age) ==
    CASE age <= 0 -> 1000
      [] age = 1 -> 607
      [] age = 2 -> 368
      [] age = 3 -> 223
      [] age = 4 -> 135
      [] OTHER -> 82

rawScore(post) == post.totalVotes * voteWeight + post.likesCount * likeWeight + post.shares * shareWeight + post.views * viewWeight

calculateEngagementScore(post, t) == rawScore(post) * decayFactor(t - post.createdAt)

\* ---- sorting and paging --------------------------------------------------
Live == {id \in PostIds : posts[id] # <<>>}

\* (faulty variant of Precedes: createdAt: 1, ties put the oldest first)
Precedes_OldestFirst(a, b, key) == key[a][1] > key[b][1] \/ (key[a][1] = key[b][1] /\ key[a][2] < key[b][2])

\* key[id] = <<first sort field, createdAt>>, both descending
Precedes(a, b, key) == key[a][1] > key[b][1] \/ (key[a][1] = key[b][1] /\ key[a][2] > key[b][2])

\* The orders a sort on the two fields may return: documents that tie on
\* both fields come in any order, and not in the same order on every query.
Orders(S, key) ==
    {o \in [1..Cardinality(S) -> S] :
        /\ \A i, j \in DOMAIN o : i # j => o[i] # o[j]
        /\ \A i, j \in DOMAIN o : i < j => ~Precedes(o[j], o[i], key)}

\* (faulty variant of Window: the limit is applied before the skip)
Window_LimitFirst(o, skip, limit) == SubSeq(SubSeq(o, 1, Min(limit, Len(o))), skip + 1, Min(limit, Len(o)))

\* .skip(skip).limit(limit)
Window(o, skip, limit) == SubSeq(o, skip + 1, Min(skip + limit, Len(o)))

TrendingKey == [id \in Live |-> <<posts[id][1].trendingScore, posts[id][1].createdAt>>]

\* (faulty variant of Overlap: $size of '$tags', not of the intersection)
Overlap_AllTags(tags, interests) == Cardinality(SeqSet(tags))

\* $size: { $setIntersection: ['$tags', userInterests] }
Overlap(tags, interests) == Cardinality(SeqSet(tags) \cap SeqSet(interests))

RecencyBonus(post, at) == IF variant = "min" THEN 0 ELSE RecencyPerTick * (at - post.createdAt)

relevanceScore(post, interests, at) == Overlap(post.tags, interests) * TagWeight * ScoreUnit + post.trendingScore + RecencyBonus(post, at)

\* (faulty variant of Candidates: the $match stage is missing)
Candidates_NoMatch(interacted) == Live

\* $match: { _id: { $nin: interactedPostIds } }
Candidates(interacted) == {id \in Live : id \notin interacted}

RelevanceKey(S, interests, at) == [id \in S |-> <<relevanceScore(posts[id][1], interests, at), posts[id][1].createdAt>>]

\* the relevanceScore field $addFields puts on each document of the page
PageScores(page, interests, at) == [i \in DOMAIN page |-> relevanceScore(posts[page[i]][1], interests, at)]

\* what the fallback query / the trending listing may return
TrendingPages(limit, skip) == {Window(o, skip, limit) : o \in Orders(Live, TrendingKey)}

\* what the aggregate may return for a loaded user
FeedPages(user, at, limit, skip) ==
    LET interacted == {user.interactions[i].postId : i \in DOMAIN user.interactions}
        S == Candidates(interacted)
    IN  {Window(o, skip, limit) : o \in Orders(S, RelevanceKey(S, user.interests, at))}

\* ---- query parameters ----------------------------------------------------
\* limit and skip as a well-behaved client sends them: absent or a positive
\* number (absent for server.js, which reads neither)
GoodParams(max) == IF variant = "min" THEN {NoParam} ELSE {NoParam} \cup {[kind |-> "number", n |-> i] : i \in 1..max}

RawParams(max) == {NoParam, [kind |-> "text", n |-> 0]} \cup {[kind |-> "number", n |-> i] : i \in -1..max}

RawLimits == IF traffic = "any" THEN RawParams(MaxLimit) ELSE GoodParams(MaxLimit)

RawSkips == IF traffic = "any" THEN RawParams(MaxSkip) ELSE GoodParams(MaxSkip)

NaN == <<>>

\* parseInt(req.query.x): NaN for an absent parameter and for a text that
\* starts with no number
parseInt(raw) == IF raw.kind = "number" THEN <<raw.n>> ELSE NaN

\* x || d: the default replaces NaN and 0
OrDefault(x, d) == IF x = NaN \/ x = <<0>> THEN d ELSE x[1]

\* MongoDB rejects a negative $skip or $limit and a negative skip of a find;
\* the driver sends a negative limit of a find as its absolute value
Rejected(r) == r.skip < 0 \/ (r.pc = "feedAggregate" /\ r.limit < 0)

Abs(n) == IF n < 0 THEN 0 - n ELSE n

\* ---- GET /api/posts/feed/:userId ------------------------------------------
FeedStart(p) ==
    /\ CanQuery(p)
    /\ \E u \in Users, rl \in RawLimits, rs \in RawSkips :
          \* server.js calls getPersonalizedFeed(userId): limit = 20, skip = 0
          LET l == IF variant = "min" THEN DefaultLimit ELSE OrDefault(parseInt(rl), DefaultLimit)
              k == IF variant = "min" THEN DefaultSkip ELSE OrDefault(parseInt(rs), DefaultSkip)
          IN  req' = [req EXCEPT ![p] = [IdleReq EXCEPT !.op = "feed", !.pc = "feedUser", !.uid = u, !.rawLimit = rl, !.rawSkip = rs, !.limit = l, !.skip = k]]
    /\ queried' = queried + 1
    /\ resp' = NoResp
    /\ UNCHANGED <<variant, traffic, minted, late, posts, users, now, job, started, jobRuns>>

FeedUser(p) ==
    /\ req[p].pc = "feedUser"
    /\ LET r == req[p]
           found == users[r.uid]
       IN  Commit(p,
                IF found = <<>>
                THEN IF variant = "auth" THEN Respond(r, 500, "User not found") ELSE [r EXCEPT !.pc = "feedTrending"]
                ELSE [r EXCEPT !.pc = "feedAggregate", !.user = found, !.at = now])
    /\ UNCHANGED <<variant, traffic, minted, late, posts, users, now, job, started, queried, jobRuns>>

FeedTrending(p) ==
    /\ req[p].pc = "feedTrending"
    /\ IF Rejected(req[p])
       THEN Commit(p, Respond(req[p], 500, "BadValue"))
       ELSE \E page \in TrendingPages(Abs(req[p].limit), req[p].skip) :
               Commit(p, Respond([req[p] EXCEPT !.result = page], 200, ""))
    /\ UNCHANGED <<variant, traffic, minted, late, posts, users, now, job, started, queried, jobRuns>>

FeedAggregate(p) ==
    /\ req[p].pc = "feedAggregate"
    /\ IF Rejected(req[p])
       THEN Commit(p, Respond(req[p], 500, "BadValue"))
       ELSE \E page \in FeedPages(req[p].user[1], req[p].at, req[p].limit, req[p].skip) :
               Commit(p, Respond([req[p] EXCEPT !.result = page, !.scores = PageScores(page, req[p].user[1].interests, req[p].at)], 200, ""))
    /\ UNCHANGED <<variant, traffic, minted, late, posts, users, now, job, started, queried, jobRuns>>

\* ---- GET /api/posts/trending ---------------------------------------------
TrendingStart(p) ==
    /\ variant # "min"
    /\ CanQuery(p)
    /\ \E rl \in RawLimits :
          req' = [req EXCEPT ![p] = [IdleReq EXCEPT !.op = "trending", !.pc = "trendingFind", !.rawLimit = rl, !.limit = OrDefault(parseInt(rl), DefaultLimit)]]
    /\ queried' = queried + 1
    /\ resp' = NoResp
    /\ UNCHANGED <<variant, traffic, minted, late, posts, users, now, job, started, jobRuns>>

TrendingFind(p) ==
    /\ req[p].pc = "trendingFind"
    /\ \E page \in TrendingPages(Abs(req[p].limit), 0) :
          Commit(p, Respond([req[p] EXCEPT !.result = page], 200, ""))
    /\ UNCHANGED <<variant, traffic, minted, late, posts, users, now, job, started, queried, jobRuns>>

\* ---- updateTrendingScores (setInterval, every 10 minutes) ----------------
\* Post.find() gives no sort: the posts come in an order the store chooses
ScanOrders == Orders(Live, [id \in Live |-> <<0, 0>>])

JobStart ==
    /\ job.pc = "idle"
    /\ job' = [IdleJob EXCEPT !.pc = "find"]
    /\ jobRuns' = jobRuns + 1
    /\ resp' = NoResp
    /\ UNCHANGED <<variant, traffic, minted, late, posts, users, now, req, started, queried>>

\* What the loop reads of a post of the list Post.find() returned.
Snapshot(id) == [id |-> id, totalVotes |-> posts[id][1].totalVotes, likesCount |-> posts[id][1].likesCount, shares |-> posts[id][1].shares, views |-> posts[id][1].views, createdAt |-> posts[id][1].createdAt]

RECURSIVE SnapshotAll(_)
SnapshotAll(ids) == IF ids = <<>> THEN <<>> ELSE <<Snapshot(Head(ids))>> \o SnapshotAll(Tail(ids))

\* the score of the next post is computed when the loop reaches it
JobNext(queue) ==
    IF queue = <<>> THEN IdleJob
    ELSE [pc |-> "update", queue |-> queue, score |-> calculateEngagementScore(Head(queue), now)]

JobFind ==
    /\ job.pc = "find"
    /\ \E o \in ScanOrders : job' = JobNext(SnapshotAll(o))
    /\ resp' = NoResp
    /\ UNCHANGED <<variant, traffic, minted, late, posts, users, now, req, started, queried, jobRuns>>

\* (faulty variant of ScoreUpdate: trendingScore is left out of the update)
ScoreUpdate_EngagementOnly(stored, snap, score) == [stored EXCEPT !.engagementScore = score]

\* (faulty variant of ScoreUpdate: $inc instead of $set)
ScoreUpdate_Increments(stored, snap, score) == [stored EXCEPT !.engagementScore = @ + score, !.trendingScore = @ + score]

\* (faulty variant of ScoreUpdate: the document the run read is written back whole)
ScoreUpdate_WritesDocument(stored, snap, score) == [stored EXCEPT !.totalVotes = snap.totalVotes, !.likesCount = snap.likesCount, !.shares = snap.shares, !.views = snap.views, !.engagementScore = score, !.trendingScore = score]

\* the update document { engagementScore, trendingScore: engagementScore }
ScoreUpdate(stored, snap, score) == [stored EXCEPT !.engagementScore = score, !.trendingScore = score]

\* (faulty variant of JobUpdate: the update is an upsert)
JobUpdate_Upserts ==
    /\ job.pc = "update"
    /\ LET snap == Head(job.queue)
       IN  posts' = [posts EXCEPT ![snap.id] = <<ScoreUpdate(IF @ = <<>> THEN NewPost(snap.id, snap.createdAt) ELSE @[1], snap, job.score)>>]
    /\ job' = JobNext(Tail(job.queue))
    /\ resp' = NoResp
    /\ UNCHANGED <<variant, traffic, minted, late, users, now, req, started, queried, jobRuns>>

\* Post.findByIdAndUpdate(post._id, { engagementScore, trendingScore: engagementScore })
JobUpdate ==
    /\ job.pc = "update"
    /\ LET id == Head(job.queue).id
       IN  posts' = [posts EXCEPT ![id] = IF @ = <<>> THEN @ ELSE <<ScoreUpdate(@[1], Head(job.queue), job.score)>>]
    /\ job' = JobNext(Tail(job.queue))
    /\ resp' = NoResp
    /\ UNCHANGED <<variant, traffic, minted, late, users, now, req, started, queried, jobRuns>>

\* a rejected store operation ends the run: the async function rejects
JobFail ==
    /\ job.pc \in {"find", "update"}
    /\ job' = IdleJob
    /\ resp' = NoResp
    /\ UNCHANGED <<variant, traffic, minted, late, posts, users, now, req, started, queried, jobRuns>>

\* ---- a run of updateTrendingScores that outlives the timer's period -------
\* setInterval calls updateTrendingScores again while the earlier call is
\* still awaiting the store: the earlier run goes on as `late`
OverlapStart ==
    /\ job.pc # "idle"
    /\ late.pc = "idle"
    /\ late' = job
    /\ job' = [IdleJob EXCEPT !.pc = "find"]
    /\ jobRuns' = jobRuns + 1
    /\ resp' = NoResp
    /\ UNCHANGED <<variant, traffic, minted, posts, users, now, req, started, queried>>

LateFind ==
    /\ late.pc = "find"
    /\ \E o \in ScanOrders : late' = JobNext(SnapshotAll(o))
    /\ resp' = NoResp
    /\ UNCHANGED <<variant, traffic, minted, posts, users, now, req, job, started, queried, jobRuns>>

LateUpdate ==
    /\ late.pc = "update"
    /\ LET id == Head(late.queue).id
       IN  posts' = [posts EXCEPT ![id] = IF @ = <<>> THEN @ ELSE <<ScoreUpdate(@[1], Head(late.queue), late.score)>>]
    /\ late' = JobNext(Tail(late.queue))
    /\ resp' = NoResp
    /\ UNCHANGED <<variant, traffic, minted, users, now, req, job, started, queried, jobRuns>>

LateFail ==
    /\ late.pc \in {"find", "update"}
    /\ late' = IdleJob
    /\ resp' = NoResp
    /\ UNCHANGED <<variant, traffic, minted, posts, users, now, req, job, started, queried, jobRuns>>

\* ---- the clock -----------------------------------------------------------
Tick ==
    /\ now < MaxNow
    /\ now' = now + 1
    /\ resp' = NoResp
    /\ UNCHANGED <<variant, traffic, minted, late, posts, users, req, job, started, queried, jobRuns>>

\* ---- a rejected store operation: the handler's catch answers 500 ---------
Awaiting(p) == req[p].pc \notin {"idle", "done"}

StoreFail(p) ==
    /\ Awaiting(p)
    /\ Commit(p, Respond(req[p], 500, "error"))
    /\ UNCHANGED <<variant, traffic, minted, late, posts, users, now, job, started, queried, jobRuns>>

Writes(p) ==
    \/ VoteStart(p)
    \/ VoteFind(p)
    \/ VoteSave(p)
    \/ LikeStart(p)
    \/ LikeFind(p)
    \/ LikeSave(p)
    \/ ShareStart(p)
    \/ ShareFind(p)
    \/ ShareSave(p)
    \/ ViewStart(p)
    \/ ViewFind(p)
    \/ ViewSave(p)
    \/ TrackFind(p)
    \/ TrackSave(p)
    \/ TrackUpdate(p)
    \/ StoreFail(p)

Registers(p) ==
    \/ UserStart(p)
    \/ UserFind(p)
    \/ UserSave(p)
    \/ StoreFail(p)

Creates(p) ==
    \/ PostStart(p)
    \/ PostSave(p)
    \/ StoreFail(p)

Deletes(p) ==
    \/ DeleteStart(p)
    \/ DeleteFind(p)
    \/ DeleteRemove(p)
    \/ StoreFail(p)

Queries(q) ==
    \/ FeedStart(q)
    \/ FeedUser(q)
    \/ FeedTrending(q)
    \/ FeedAggregate(q)
    \/ TrendingStart(q)
    \/ TrendingFind(q)
    \/ StoreFail(q)

Job ==
    \/ JobStart
    \/ JobFind
    \/ JobUpdate
    \/ JobFail

LateJob ==
    \/ OverlapStart
    \/ LateFind
    \/ LateUpdate
    \/ LateFail

\* the whole service, cut off after MaxRequests requests, MaxQueries
\* queries and MaxJobRuns runs of the job
Next ==
    \/ (\E p \in Procs : Writes(p) \/ Registers(p) \/ Creates(p) \/ Deletes(p)) /\ started' <= MaxRequests
    \/ (\E q \in QueryProcs : Queries(q)) /\ queried' <= MaxQueries
    \/ (Job \/ LateJob) /\ jobRuns' <= MaxJobRuns
    \/ Tick

Spec == Init /\ [][Next]_vars

\* The writing handlers alone, two of them in flight, serving well-formed
\* requests.  The job writes only the two score fields, which no writing
\* handler reads, and the queries write nothing: leaving them out removes
\* no step of a writing handler.
NextWrites == (\E p \in Procs : Writes(p)) /\ started' <= MaxRequests

SpecWrites == InitWellFormed /\ [][NextWrites]_vars

\* the job's Post.find() lists the posts in the order they were inserted
InsertionOrder == \A i, j \in DOMAIN job.queue : i < j => job.queue[i].id < job.queue[j].id

\* The queries against a store written by one handler at a time (at most
\* MaxFeedWrites well-formed requests) and by the job, at a fixed time of day.
NextFeed ==
    \/ Writes(1) /\ started' <= MaxFeedWrites
    \/ (\E q \in QueryProcs : Queries(q)) /\ queried' <= MaxQueries
    \/ Job /\ jobRuns' <= MaxJobRuns /\ InsertionOrder'

SpecFeed == InitWellFormed /\ [][NextFeed]_vars

\* The writing handlers one request after the other, the clients sending
\* malformed requests too.
NextAny == Writes(1) /\ started' <= MaxAnyRequests

SpecAny == InitAny /\ [][NextAny]_vars

\* The job against a store written by one handler at a time (at most
\* MaxFeedWrites well-formed requests), the posts listed in any order.
NextScan ==
    \/ Writes(1) /\ started' <= MaxFeedWrites
    \/ Job /\ jobRuns' <= MaxJobRuns

SpecScan == InitWellFormed /\ [][NextScan]_vars

\* The share and view handlers alone, two of them in flight.
Counting(p) ==
    \/ ShareStart(p)
    \/ ShareFind(p)
    \/ ShareSave(p)
    \/ ViewStart(p)
    \/ ViewFind(p)
    \/ ViewSave(p)
    \/ TrackFind(p)
    \/ TrackSave(p)
    \/ TrackUpdate(p)
    \/ StoreFail(p)

NextCounters == (\E p \in Procs : Counting(p)) /\ started' <= MaxCounterRequests

SpecCounters == InitWellFormed /\ [][NextCounters]_vars

\* The queries alone, the clients sending any limit and skip.
NextParams == (\E q \in QueryProcs : Queries(q)) /\ queried' <= MaxQueries

SpecParams == InitAny /\ [][NextParams]_vars

\* A store in use: the posts have been liked and viewed by a user without a
\* record, and the registered user may have voted for the first option of
\* one post (server.js keeps no trace of the vote in the user).
LikedBy(post, likes) == [post EXCEPT !.likes = likes, !.likesCount = Len(likes)]

VotedBy(post, voted) == IF voted THEN AddVote(post, 1, "u1") ELSE post

Voter(k) ==
    IF k = 0 \/ variant = "min" THEN NewUser
    ELSE [interactions |-> <<Interaction(k, "vote")>>, interests |-> AddInterests(<<>>, PostTags(k))]

InitUsed ==
    /\ variant \in Variants
    /\ traffic = "wellformed"
    /\ \E c \in {0, 1}, l1, l2 \in {<<>>, <<"u2">>}, v \in {0, 1}, k \in {0} \cup PostIds :
          /\ posts = [id \in PostIds |->
                        IF id = 1 THEN <<VotedBy(LikedBy(NewPost(1, 0), l1), k = 1)>>
                        ELSE <<[VotedBy(LikedBy(NewPost(2, c), l2), k = 2) EXCEPT !.views = IF variant = "min" THEN 0 ELSE v]>>]
          /\ users = [u \in Users |-> IF u \in InitialUsers THEN <<Voter(k)>> ELSE <<>>]
    /\ now \in 1..MaxNow
    /\ req = [p \in Slots |-> IdleReq]
    /\ resp = NoResp
    /\ job = IdleJob
    /\ started = 0
    /\ queried = 0
    /\ jobRuns = 0
    /\ minted = PostIds
    /\ late = IdleJob

\* The queries against a store in use that only the job writes.
NextRank ==
    \/ (\E q \in QueryProcs : Queries(q)) /\ queried' <= MaxQueries
    \/ Job /\ jobRuns' <= MaxJobRuns

SpecRank == InitUsed /\ [][NextRank]_vars

\* The job alone, run after run, on a store in use that nobody writes and
\* at a fixed time.
NextJob == (JobStart \/ JobFind \/ JobUpdate) /\ jobRuns' <= MaxScans

SpecJob == InitUsed /\ [][NextJob]_vars

\* A store in which the registered user has interacted once, in any of the
\* four ways the routes log (server.js has no share and no view route and
\* logs nothing), and the queries alone against it.
Seen(post, kind) ==
    CASE kind = "vote" -> AddVote(post, 1, "u1")
      [] kind = "like" -> LikedBy(post, <<"u1">>)
      [] kind = "share" -> IF variant = "min" THEN post ELSE [post EXCEPT !.shares = 1]
      [] kind = "view" -> IF variant = "min" THEN post ELSE [post EXCEPT !.views = 1]

Seer(k, kind) ==
    IF variant = "min" THEN NewUser
    ELSE [interactions |-> <<Interaction(k, kind)>>,
          interests |-> IF kind = "vote" THEN AddInterests(<<>>, PostTags(k)) ELSE <<>>]

InitSeen ==
    /\ variant \in Variants
    /\ traffic = "wellformed"
    /\ \E c \in {0, 1}, k \in PostIds, kind \in {"vote", "like", "share", "view"} :
          /\ posts = [id \in PostIds |-> <<IF id = k THEN Seen(NewPost(id, id * c - c), kind) ELSE NewPost(id, id * c - c)>>]
          /\ users = [u \in Users |-> IF u \in InitialUsers THEN <<Seer(k, kind)>> ELSE <<>>]
    /\ now \in 1..MaxNow
    /\ req = [p \in Slots |-> IdleReq]
    /\ resp = NoResp
    /\ job = IdleJob
    /\ started = 0
    /\ queried = 0
    /\ jobRuns = 0
    /\ minted = PostIds
    /\ late = IdleJob

SpecSeen == InitSeen /\ [][NextParams]_vars

\* Both posts stored, liked or not.
LikedStore ==
    /\ variant \in Variants
    /\ traffic \in Traffic
    /\ \E c \in {0, 1}, l \in {<<>>, <<"u2">>} :
          posts = [id \in PostIds |-> <<LikedBy(NewPost(id, id * c - c), l)>>]
    /\ users = [u \in Users |-> IF u \in InitialUsers THEN <<NewUser>> ELSE <<>>]
    /\ now \in 1..MaxNow
    /\ req = [p \in Slots |-> IdleReq]
    /\ resp = NoResp
    /\ job = IdleJob
    /\ started = 0
    /\ queried = 0
    /\ jobRuns = 0
    /\ minted = PostIds
    /\ late = IdleJob

InitLikedAny == LikedStore /\ traffic = "any"

InitLiked == LikedStore /\ traffic = "wellformed" /\ now = MaxNow

\* The delete handler one request after the other, the clients sending
\* malformed requests too, and the job.
NextDelete ==
    \/ Deletes(1) /\ started' <= MaxAnyRequests
    \/ Job /\ jobRuns' <= MaxJobRuns

SpecDelete == InitLikedAny /\ [][NextDelete]_vars

\* One well-formed delete request, the job and the queries.
NextDeleteScan ==
    \/ Deletes(1) /\ started' <= MaxFeedWrites
    \/ (\E q \in QueryProcs : Queries(q)) /\ queried' <= MaxQueries
    \/ Job /\ jobRuns' <= MaxJobRuns

SpecDeleteScan == InitLiked /\ [][NextDeleteScan]_vars

\* The create-or-get handler alone, two requests in flight, on a store in
\* use.
NextUsers == (\E p \in Procs : Registers(p)) /\ started' <= MaxRequests

SpecUsers == InitUsed /\ [][NextUsers]_vars

\* The like handler alone, two requests in flight.
Liking(p) ==
    \/ LikeStart(p)
    \/ LikeFind(p)
    \/ LikeSave(p)
    \/ TrackFind(p)
    \/ TrackSave(p)
    \/ TrackUpdate(p)
    \/ StoreFail(p)

NextLikes == (\E p \in Procs : Liking(p)) /\ started' <= MaxLikeRequests

SpecLikes == InitWellFormed /\ [][NextLikes]_vars

\* A store that holds one post, liked or not; the second post is created
\* by a request.  The job, also in two overlapping runs, and the clock.
InitOnePost ==
    /\ variant \in Variants
    /\ traffic = "wellformed"
    /\ \E l \in {<<>>, <<"u2">>} : posts = [id \in PostIds |-> IF id = 1 THEN <<LikedBy(NewPost(1, 0), l)>> ELSE <<>>]
    /\ users = [u \in Users |-> IF u \in InitialUsers THEN <<NewUser>> ELSE <<>>]
    /\ now = 1
    /\ req = [p \in Slots |-> IdleReq]
    /\ resp = NoResp
    /\ job = IdleJob
    /\ started = 0
    /\ queried = 0
    /\ jobRuns = 0
    /\ minted = {1}
    /\ late = IdleJob

NextScores ==
    \/ Creates(1) /\ started' <= MaxFeedWrites
    \/ (Job \/ LateJob) /\ jobRuns' <= MaxScans
    \/ Tick

SpecScores == InitOnePost /\ [][NextScores]_vars

\* ---- claims --------------------------------------------------------------
SumVotes(post) == post.options[1].votes + post.options[2].votes

C2_LikesCountIsSize == \A id \in PostIds : posts[id] # <<>> => posts[id][1].likesCount = Len(posts[id][1].likes)

Occurrences(s, x) == Cardinality({i \in DOMAIN s : s[i] = x})

VoteEntries(post, u) == Occurrences(post.options[1].voters, u) + Occurrences(post.options[2].voters, u)

InVoters(post, u) == VoteEntries(post, u) > 0

\* C4: a vote request whose user is already in the voters list of any
\* option of the post it reads is answered 400 'Already voted' and changes
\* neither the posts nor the users; a vote request whose user is in no
\* voters list of the post it reads is not rejected (it goes on to save).
C4_AlreadyVoted ==
    [][\A p \in Procs : VoteFind(p) /\ posts[req[p].pid] # <<>> =>
          IF InVoters(posts[req[p].pid][1], req[p].uid)
          THEN /\ resp'.op = "vote" /\ resp'.uid = req[p].uid /\ resp'.pid = req[p].pid
               /\ resp'.status = 400 /\ resp'.msg = "Already voted"
               /\ req'[p] = IdleReq
               /\ posts' = posts /\ users' = users
          ELSE /\ req'[p].pc = "voteSave"
               /\ resp' = NoResp]_vars

\* witness of C4: a vote was rejected as 'Already voted' although it named
\* another option than the one holding the user's earlier vote
C4_Witness ==
    /\ resp.op = "vote" /\ resp.status = 400 /\ resp.msg = "Already voted"
    /\ posts[resp.pid] # <<>>
    /\ ~Includes(posts[resp.pid][1].options[resp.optionIndex].voters, resp.uid)
    /\ InVoters(posts[resp.pid][1], resp.uid)

Tracked(r) == r.op \in {"vote", "share", "view"} \/ (r.op = "like" /\ ~r.hasLiked)

\* C6: every vote, like (off -> on), share or view answered with success
\* for an existing user has appended exactly one record to that user's
\* interaction log, and the log holds a record with the post's id and the
\* request's kind.
C6_OneRecordPerInteraction ==
    (resp.status = 200 /\ Tracked(resp) /\ resp.uid \in InitialUsers) =>
        /\ resp.logged = 1
        /\ Includes(users[resp.uid][1].interactions, Interaction(resp.pid, resp.op))

\* C7: once a like request has found the user in the post's likes (it is
\* toggling the like off), none of its steps changes any user record: no
\* interaction record is appended, interactions and interests are untouched.
C7_UnlikeLeavesUser ==
    [][\A p \in Procs :
          /\ (LikeFind(p) /\ posts[req[p].pid] # <<>> /\ Includes(posts[req[p].pid][1].likes, req[p].uid))
                => (users' = users /\ req'[p].hasLiked /\ req'[p].logged = 0)
          /\ (req[p].op = "like" /\ req[p].hasLiked /\ req'[p] # req[p])
                => (users' = users /\ req[p].logged = 0)]_vars

\* witness of C7: an unlike was answered with success
C7_Witness == resp.op = "like" /\ resp.hasLiked /\ resp.status = 200 /\ resp.logged = 0

NoDuplicates(s) == \A i, j \in DOMAIN s : i # j => s[i] # s[j]

\* C8: after a successful vote by an existing user every tag of the voted
\* post is in the user's interests; interests never loses a tag and never
\* holds the same tag twice.
C8_InterestsAccumulate ==
    /\ [](\A u \in Users : users[u] # <<>> => NoDuplicates(users[u][1].interests))
    /\ []((resp.op = "vote" /\ resp.status = 200 /\ resp.uid \in InitialUsers)
            => SeqSet(posts[resp.pid][1].tags) \subseteq SeqSet(users[resp.uid][1].interests))
    /\ [][\A u \in Users : users[u] # <<>> =>
            (users'[u] # <<>> /\ SeqSet(users[u][1].interests) \subseteq SeqSet(users'[u][1].interests))]_vars

\* C5: a page the feed returns holds no post whose id is in the interaction
\* log of the user document the query loaded, whatever the kind of the
\* logged interaction and whatever limit and skip are.
C5_FeedExcludesSeen ==
    (resp.op = "feed" /\ resp.status = 200) => \A i \in DOMAIN resp.result : resp.result[i] \notin resp.interacted

\* witness of C5: a known user with a non-empty log got a non-empty page
C5_Witness ==
    /\ resp.op = "feed" /\ resp.status = 200
    /\ users[resp.uid] # <<>>
    /\ resp.interacted # {}
    /\ resp.result # <<>>

\* the pages a feed query for user u may return in the current state
PagesFor(u, limit, skip) ==
    IF users[u] = <<>> THEN TrendingPages(limit, skip) ELSE FeedPages(users[u][1], now, limit, skip)

\* C9: with the store frozen, page one followed by page two equals the
\* single page of twice the size, for every user and limit, also when
\* candidates tie on both sort fields.
C9_PagesConcatenate ==
    \A u \in Users : (users[u] # <<>> \/ variant # "auth") =>
        \A l \in 1..MaxLimit :
            \A a \in PagesFor(u, l, 0), b \in PagesFor(u, l, l), c \in PagesFor(u, 2 * l, 0) : a \o b = c

\* s lists every stored post once, by trendingScore descending, then
\* createdAt descending
IsTrendingOrder(s) ==
    /\ Len(s) = Cardinality(Live)
    /\ \A id \in Live : \E i \in DOMAIN s : s[i] = id
    /\ \A i, j \in DOMAIN s : i < j =>
          \/ posts[s[i]][1].trendingScore > posts[s[j]][1].trendingScore
          \/ /\ posts[s[i]][1].trendingScore = posts[s[j]][1].trendingScore
             /\ posts[s[i]][1].createdAt >= posts[s[j]][1].createdAt

\* page is the window [skip, skip+limit) of such an order
IsTrendingWindow(page, limit, skip) ==
    \E s \in [1..Cardinality(Live) -> Live] :
        /\ IsTrendingOrder(s)
        /\ Len(page) = (IF Len(s) - skip < 0 THEN 0 ELSE IF Len(s) - skip < limit THEN Len(s) - skip ELSE limit)
        /\ \A i \in DOMAIN page : page[i] = s[skip + i]

\* C10 as stated: a feed query for a user with no record is answered
\* without error by the trending order windowed to [skip, skip+limit).
C10_UnknownUserFallsBack ==
    (resp.op = "feed" /\ users[resp.uid] = <<>> /\ resp.msg # "error") =>
        (resp.status = 200 /\ IsTrendingWindow(resp.result, resp.limit, resp.skip))

\* C10 amended: so it is in the deployments that take the user id from the
\* request; the token-authenticated deployment answers 'User not found'.
C10_FallbackUnlessAuth ==
    (resp.op = "feed" /\ users[resp.uid] = <<>> /\ resp.msg # "error") =>
        IF variant = "auth"
        THEN resp.status = 500 /\ resp.msg = "User not found" /\ resp.result = <<>>
        ELSE resp.status = 200 /\ IsTrendingWindow(resp.result, resp.limit, resp.skip)

\* witness of C10: an unknown user got both posts, the one with the higher
\* trendingScore first
C10_Witness ==
    /\ resp.op = "feed" /\ resp.status = 200
    /\ users[resp.uid] = <<>>
    /\ Len(resp.result) = 2
    /\ posts[resp.result[1]][1].trendingScore > posts[resp.result[2]][1].trendingScore

\* C11: in every page the personalized feed returns for a known user the
\* posts come in non-increasing relevanceScore, and posts of equal
\* relevanceScore in non-increasing createdAt (newest first).
C11_FeedOrdered ==
    (resp.op = "feed" /\ resp.status = 200 /\ resp.known) =>
        \A i, j \in DOMAIN resp.result : i < j =>
            \/ resp.scores[i] > resp.scores[j]
            \/ /\ resp.scores[i] = resp.scores[j]
               /\ posts[resp.result[i]][1].createdAt >= posts[resp.result[j]][1].createdAt

\* witness of C11: a known user got two posts of equal relevanceScore, the
\* newer one first
C11_Witness ==
    /\ resp.op = "feed" /\ resp.status = 200 /\ resp.known
    /\ Len(resp.result) = 2
    /\ resp.scores[1] = resp.scores[2]
    /\ posts[resp.result[1]][1].createdAt > posts[resp.result[2]][1].createdAt

AllTags == {"t1", "t2"}

SharedTags(post, interests) == Cardinality({t \in AllTags : Includes(post.tags, t) /\ Includes(interests, t)})

TagsPlusTrending(id, interests) == 10 * ScoreUnit * SharedTags(posts[id][1], interests) + posts[id][1].trendingScore

C13_FailureDoesNotStopScan == [][(job.pc = "update" /\ job'.pc = "idle") => Len(job.queue) = 1]_vars

Counters(post) == <<post.options, post.totalVotes, post.likes, post.likesCount, post.shares, post.views>>

\* C14: a step of the trending-update job changes no post's options,
\* voters, totalVotes, likes, likesCount, shares or views, also when a
\* vote, like, share or view was committed after the job read the post.
C14_JobWritesScoresOnly ==
    [][job' # job => \A id \in PostIds : posts[id] # <<>> =>
            (posts'[id] # <<>> /\ Counters(posts'[id][1]) = Counters(posts[id][1]))]_vars

\* witness of C14: the run has written its first post and is about to write
\* a post whose counters changed in the store since the run read it
C14_Witness ==
    /\ job.pc = "update" /\ Len(job.queue) = 1
    /\ LET snap == Head(job.queue)
           post == posts[snap.id][1]
       IN  <<snap.totalVotes, snap.likesCount, snap.shares, snap.views>> # <<post.totalVotes, post.likesCount, post.shares, post.views>>

\* C15: with the clock and the counters fixed, a second run of the job
\* changes no post (two runs leave what one run leaves), and after a run
\* every post holds the score of its own counters, whatever the order in
\* which the run visited the posts.
C15_JobIdempotent ==
    /\ [][jobRuns >= 2 => posts' = posts]_vars
    /\ []((job.pc = "idle" /\ jobRuns >= 1) =>
            \A id \in PostIds :
                /\ posts[id][1].engagementScore = calculateEngagementScore(posts[id][1], now)
                /\ posts[id][1].trendingScore = calculateEngagementScore(posts[id][1], now))

\* witness of C15: the second run visits the posts in the other order and
\* has written post 2, whose score is not 0
C15_Witness ==
    /\ jobRuns = 2 /\ job.pc = "update"
    /\ Len(job.queue) = 1 /\ Head(job.queue).id = 1
    /\ posts[2][1].engagementScore > 0

Malformed(r) == r.op = "vote" /\ r.pid \in PostIds /\ (r.uid = NoUser \/ r.optionIndex = BadOption)

\* C16: a vote request (on an existing post) without a user identifier or
\* with an optionIndex that selects no option is rejected as a validation
\* error (400), and none of its steps changes a post or a user record.
C16_MalformedVoteRejected ==
    /\ []((Malformed(resp) /\ resp.msg # "error") => resp.status = 400)
    /\ [][\A p \in Procs : Malformed(req[p]) => (posts' = posts /\ users' = users)]_vars

\* C17: a vote, like, share or view request naming a post id that matches
\* no post is answered 404 'Post not found' (unless the store failed or the
\* request was refused for its missing userId before the lookup), and none
\* of its steps changes a post or a user record.
C17_MissingPostNotFound ==
    /\ []((resp.op \in {"vote", "like", "share", "view"} /\ resp.pid = NoPostId /\ resp.msg \notin {"error", "userId required"})
            => (resp.status = 404 /\ resp.msg = "Post not found"))
    /\ [][\A p \in Procs : req[p].pid = NoPostId => (posts' = posts /\ users' = users)]_vars

\* C18: the limit and skip handed to the feed ranker are never negative; an
\* absent or malformed limit is replaced by 20, an absent or malformed skip
\* by 0.
C18_LimitSkipClamped ==
    \A q \in QueryProcs : req[q].op = "feed" =>
        /\ req[q].limit >= 0 /\ req[q].skip >= 0
        /\ req[q].rawLimit.kind # "number" => req[q].limit = 20
        /\ req[q].rawSkip.kind # "number" => req[q].skip = 0

\* C19: the stored shares and views of a post never decrease from one
\* state to the next, however share and view requests on it interleave.
C19_SharesViewsMonotonic ==
    [][\A id \in PostIds : (posts[id] # <<>> /\ posts'[id] # <<>>) =>
            /\ posts'[id][1].shares >= posts[id][1].shares
            /\ posts'[id][1].views >= posts[id][1].views]_vars

\* C20: a vote, like, share or view request that ended in a failed store
\* operation (answered 500) has persisted nothing: neither its change of
\* the post nor its interaction record.
C20_NoPartialCommit ==
    (resp.op \in {"vote", "like", "share", "view"} /\ resp.status = 500 /\ resp.msg = "error") =>
        (resp.counted = 0 /\ resp.logged = 0)

\* C21: a post leaves the store only in a step of a delete request whose
\* userId is the post's creatorId; a delete request of an existing post by
\* another userId, or by none, is answered 403 'Not authorized', and none of
\* its steps changes a post.
C21_OnlyCreatorDeletes ==
    /\ [][\A id \in PostIds : (posts[id] # <<>> /\ posts'[id] = <<>>) =>
            \E p \in Procs : /\ req[p].op = "delete" /\ req[p].pid = id
                             /\ req[p].uid = posts[id][1].creatorId
                             /\ req'[p] = IdleReq /\ resp'.status = 200]_vars
    /\ []((resp.op = "delete" /\ resp.msg # "error" /\ resp.pid \in PostIds /\ posts[resp.pid] # <<>>)
            => (resp.uid # posts[resp.pid][1].creatorId /\ resp.status = 403 /\ resp.msg = "Not authorized"))
    /\ [][\A p \in Procs : (req[p].op = "delete" /\ req[p].pid \in PostIds /\ posts[req[p].pid] # <<>>
                               /\ req[p].uid # posts[req[p].pid][1].creatorId /\ req'[p] # req[p])
                              => posts' = posts]_vars

\* witness of C21: the creator deleted one post, and a delete of the other
\* post, which has likes and a score, was refused
C21_Witness ==
    /\ resp.op = "delete" /\ resp.status = 403
    /\ posts[resp.pid] # <<>>
    /\ posts[resp.pid][1].likesCount > 0 /\ posts[resp.pid][1].trendingScore > 0
    /\ \E id \in PostIds : posts[id] = <<>>

\* C30: a post that left the store never comes back, whatever the job
\* writes afterwards, and no feed or trending page lists a post that is not
\* in the store.
C30_DeletedStaysDeleted ==
    /\ [][\A id \in PostIds : posts[id] = <<>> => posts'[id] = <<>>]_vars
    /\ []((resp.op \in {"feed", "trending"} /\ resp.status = 200)
            => \A i \in DOMAIN resp.result : posts[resp.result[i]] # <<>>)

\* witness of C30: the run has written its first post and is about to write
\* the second one, which was deleted after the run read the list
C30_Witness ==
    /\ job.pc = "update" /\ Len(job.queue) = 1
    /\ posts[Head(job.queue).id] = <<>>
    /\ \E id \in PostIds : posts[id] # <<>> /\ posts[id][1].trendingScore > 0

\* C22: the store never holds two user records with one userId, also when
\* two create-or-get requests for a new userId both find no record before
\* either saves; a step of a request whose userId has a record changes no
\* user record, and a request answered with success returns the record the
\* store holds.
C22_OneRecordPerUserId ==
    /\ [](\A u \in Users : Len(users[u]) <= 1)
    /\ [][\A p \in Procs : (req[p].op = "user" /\ users[req[p].uid] # <<>> /\ req'[p] # req[p]) => users' = users]_vars
    /\ []((resp.op = "user" /\ resp.status = 200) =>
            /\ users[resp.uid] # <<>>
            /\ resp.interests = users[resp.uid][1].interests
            /\ resp.interacted = {users[resp.uid][1].interactions[i].postId : i \in DOMAIN users[resp.uid][1].interactions})

\* witness of C22: of two requests for a new userId that both found no
\* record, the second to save was refused and the store holds one record
C22_Witness ==
    /\ resp.op = "user" /\ resp.status = 500 /\ resp.msg = "E11000"
    /\ resp.uid \notin InitialUsers
    /\ Len(users[resp.uid]) = 1

\* C28: for every stored post, likesCount is not negative and no user
\* identifier occurs twice in likes, however like requests interleave.
C28_LikesWellFormed ==
    \A id \in PostIds : posts[id] # <<>> =>
        /\ posts[id][1].likesCount >= 0
        /\ NoDuplicates(posts[id][1].likes)

Later == now..(now + MaxAge)

OneMore(post) ==
    {[post EXCEPT !.totalVotes = @ + 1], [post EXCEPT !.likesCount = @ + 1],
     [post EXCEPT !.shares = @ + 1], [post EXCEPT !.views = @ + 1]}

\* C23: the score calculateEngagementScore gives a stored post does not
\* rise from one time to a later one while the post's counters stay as they
\* are, and at no time does it fall when one of totalVotes, likesCount,
\* shares and views is raised by one.
C23_ScoreMonotone ==
    \A id \in PostIds : posts[id] # <<>> =>
        \A t \in Later :
            /\ calculateEngagementScore(posts[id][1], t + 1) <= calculateEngagementScore(posts[id][1], t)
            /\ \A more \in OneMore(posts[id][1]) :
                    calculateEngagementScore(more, t) >= calculateEngagementScore(posts[id][1], t)

\* C24: every stored post has trendingScore = engagementScore, from its
\* creation on, also while two runs of the job overlap and after a run
\* failed part-way.
C24_TrendingIsEngagement ==
    \A id \in PostIds : posts[id] # <<>> => posts[id][1].trendingScore = posts[id][1].engagementScore

\* witness of C24: two runs overlap, each about to write a score of its
\* own, the first post already has a score and the second was created by a
\* request
C24_Witness ==
    /\ job.pc = "update" /\ late.pc = "update"
    /\ job.score # late.score
    /\ posts[1] # <<>> /\ posts[1][1].trendingScore > 0
    /\ posts[2] # <<>> /\ posts[2][1].trendingScore = 0

Appended(u) == users'[u][1].interactions[Len(users'[u][1].interactions)]

Counted(post, kind, u) ==
    CASE kind = "vote" -> InVoters(post, u)
      [] kind = "like" -> Includes(post.likes, u)
      [] kind = "share" -> post.shares > 0
      [] kind = "view" -> post.views > 0

\* C25: when a step appends an interaction record to a user's log, the
\* stored post already shows the interaction: the user is in its likes for
\* a 'like' record, in its voters for a 'vote' record, and its shares or
\* views are above 0 for a 'share' or 'view' record.
C25_CounterBeforeRecord ==
    [][\A u \in Users :
          (users[u] # <<>> /\ users'[u] # <<>> /\ Len(users'[u][1].interactions) > Len(users[u][1].interactions))
              => /\ posts[Appended(u).postId] # <<>>
                 /\ Counted(posts[Appended(u).postId][1], Appended(u).type, u)]_vars

SameAffinity(a, b, interests) ==
    /\ SharedTags(posts[a][1], interests) = SharedTags(posts[b][1], interests)
    /\ posts[a][1].trendingScore = posts[b][1].trendingScore

\* C26: of two posts of a personalized page that share the same number of
\* tags with the user's interests and have the same trendingScore, the one
\* created later comes first, in every deployment.
C26_NewerFirst ==
    (resp.op = "feed" /\ resp.status = 200 /\ resp.known) =>
        \A i, j \in DOMAIN resp.result :
            (i < j /\ SameAffinity(resp.result[i], resp.result[j], resp.interests))
                => posts[resp.result[i]][1].createdAt >= posts[resp.result[j]][1].createdAt

C29_NoShareLost ==
    [][\A p \in Procs : ShareSave(p) => posts'[req[p].pid][1].shares = posts[req[p].pid][1].shares + 1]_vars

====
